---- MODULE Spec2Model ----
(***************************************************************************)
(* Model of app.py, the Streamlit dashboard "AI Data Visualizer".          *)
(*                                                                         *)
(* The script is executed top to bottom once per user interaction (one     *)
(* "pass").  The state is the session: the uploaded file, the values held  *)
(* by the sidebar widgets, and the page the last pass produced.  Every     *)
(* action is one user interaction followed by the whole pass it triggers.  *)
(*                                                                         *)
(* Cells are modelled as optional values: <<>> is a null cell (NaN/None),  *)
(* <<x>> a cell holding x.  Numeric cells hold finite integers.            *)
(* The theme radio (lines 48-49) only changes the plotting style and the   *)
(* summary panel's own multiselect (line 69) only changes which columns    *)
(* the describe() table lists; neither is part of the state.               *)
(***************************************************************************)
EXTENDS Integers, Sequences, FiniteSets, TLC

\* Largest number of rows of an uploaded table.
MaxRows == 2

Null == <<>>
PyNone == "<None>"

----------------------------------------------------------------------------
(* Uploaded files                                                          *)

\* Column types pandas infers for the columns of a parsed file.
DTypes == {"object", "category", "int64", "float64", "bool", "datetime64[ns]"}

Col(n, t) == [name |-> n, dtype |-> t]

\* The rows the uploaded tables are built from, over all column names used.
WideRows ==
  { [when |-> <<2>>, shipped |-> <<3>>, region |-> <<"A">>, segment |-> <<"X">>,
     sales |-> <<1>>, qty |-> <<1>>, flag |-> <<TRUE>>],
    [when |-> <<1>>, shipped |-> <<3>>, region |-> <<"A">>, segment |-> <<"Y">>,
     sales |-> <<4>>, qty |-> <<0>>, flag |-> <<FALSE>>],
    [when |-> <<1>>, shipped |-> <<2>>, region |-> <<"B">>, segment |-> <<"X">>,
     sales |-> Null, qty |-> <<0 - 2>>, flag |-> <<TRUE>>],
    [when |-> <<3>>, shipped |-> <<4>>, region |-> Null, segment |-> <<"Y">>,
     sales |-> <<1>>, qty |-> <<1>>, flag |-> <<FALSE>>] }

Names(columns) == [i \in 1..Len(columns) |-> columns[i].name]

Range(s) == {s[i] : i \in 1..Len(s)}

\* A column the parser types as object holds at least one non-null cell
\* (an all-empty column is parsed as float64), and a parsed table has rows
\* (a header-only file has no typed columns).
Parseable(columns, rows) ==
  /\ Len(rows) >= 1
  /\ \A i \in 1..Len(columns) :
       columns[i].dtype = "object"
         => \E k \in 1..Len(rows) : rows[k][columns[i].name] # Null

TablesOf(columns) ==
  LET cols == Range(Names(columns))
      proj == {[c \in cols |-> r[c]] : r \in WideRows}
      seqs == UNION {[1..n -> proj] : n \in 1..MaxRows}
  IN {[columns |-> columns, rows |-> rows] :
        rows \in {s \in seqs : Parseable(columns, s)}}

NoTable == [columns |-> <<>>, rows |-> <<>>]

\* The 4-row region/sales table of the documented scenario.
ScenarioTable ==
  [columns |-> <<Col("region", "object"), Col("sales", "int64")>>,
   rows |-> << [region |-> <<"A">>, sales |-> <<10>>],
               [region |-> <<"A">>, sales |-> <<20>>],
               [region |-> <<"B">>, sales |-> <<30>>],
               [region |-> <<"B">>, sales |-> <<40>>] >>]

\* A file is its name, whether its bytes parse, and the table they hold.
\* read_csv (no parse_dates) never yields a datetime64 column, so only the
\* spreadsheet holds one.
Files ==
  {[name |-> "data.xlsx", ok |-> TRUE, table |-> t] :
      t \in TablesOf(<<Col("when", "datetime64[ns]"), Col("region", "object"),
                       Col("sales", "float64"), Col("qty", "int64"),
                       Col("shipped", "datetime64[ns]")>>)}
  \cup {[name |-> "segments.csv", ok |-> TRUE, table |-> t] :
      t \in TablesOf(<<Col("region", "object"), Col("segment", "object"),
                       Col("qty", "int64")>>)}
  \cup {[name |-> "flags.csv", ok |-> TRUE, table |-> t] :
      t \in TablesOf(<<Col("flag", "bool"), Col("sales", "float64")>>)}
  \cup {[name |-> "labels.csv", ok |-> TRUE, table |-> t] :
      t \in TablesOf(<<Col("region", "object"), Col("flag", "bool")>>)}
  \cup {[name |-> "scenario.csv", ok |-> TRUE, table |-> ScenarioTable]}
  \cup {[name |-> n, ok |-> FALSE, table |-> NoTable] : n \in {"bad.csv", "bad.xlsx"}}

NoFile == [name |-> "", ok |-> FALSE, table |-> NoTable]

----------------------------------------------------------------------------
(* Loader (lines 18-30)                                                    *)

IsCsv(name) ==
  name \in {"segments.csv", "flags.csv", "labels.csv", "scenario.csv", "bad.csv"}

\* pd.read_csv / pd.read_excel: the table of the file, or an exception.
read_csv(f) == [raised |-> ~f.ok, df |-> f.table]

read_excel(f) == [raised |-> ~f.ok, df |-> f.table]

Load(f) == IF IsCsv(f.name) THEN read_csv(f) ELSE read_excel(f)

----------------------------------------------------------------------------
(* Column detection (lines 36-38)                                          *)

\* Selects with bool taken for a number type; C8 tells it from Selects.
SelectsBoolAsNumber(entry, dtype) ==
  CASE entry = "number" -> dtype \in {"int64", "float64", "bool"}
    [] entry = "datetime" -> dtype = "datetime64[ns]"
    [] OTHER -> dtype = entry

\* Whether a dtype is selected by one entry of select_dtypes' include list:
\* "number" selects the numpy number types, "datetime" the datetime64 type,
\* any other entry the dtype of that name.
Selects(entry, dtype) ==
  CASE entry = "number" -> dtype \in {"int64", "float64"}
    [] entry = "datetime" -> dtype = "datetime64[ns]"
    [] OTHER -> dtype = entry

select_dtypes(columns, include) ==
  LET Test(c) == \E e \in include : Selects(e, c.dtype)
  IN Names(SelectSeq(columns, Test))

categorical_cols(columns) == select_dtypes(columns, {"object", "category"})

numeric_cols(columns) == select_dtypes(columns, {"number"})

datetime_cols(columns) == select_dtypes(columns, {"datetime64[ns]", "datetime"})

\* lst[:1]
FirstOnly(lst) == IF lst = <<>> THEN <<>> ELSE <<lst[1]>>

\* The value a selectbox returns when first rendered: its first option, or
\* None when it has no options.
FirstOrNone(lst) == IF lst = <<>> THEN PyNone ELSE lst[1]

----------------------------------------------------------------------------
(* Filter (lines 57-64)                                                    *)

RECURSIVE Unique(_, _)
Unique(s, seen) ==
  IF s = <<>> THEN <<>>
  ELSE IF Head(s) \in seen THEN Unique(Tail(s), seen)
       ELSE <<Head(s)>> \o Unique(Tail(s), seen \cup {Head(s)})

Column(rows, c) == [i \in 1..Len(rows) |-> rows[i][c]]

dropna(cells) == LET NotNull(x) == x # Null IN SelectSeq(cells, NotNull)

\* df[filter_col].dropna().unique().tolist()
unique_vals(rows, c) == Unique(dropna(Column(rows, c)), {})

\* FilterRows with null cells passing the comparison; C2 tells it from
\* FilterRows.
FilterRowsKeepingNulls(rows, c, v) ==
  LET Keep(r) == r[c] = Null \/ r[c] = v IN SelectSeq(rows, Keep)

\* df[df[filter_col] == selected_val]: a null cell equals nothing.
FilterRows(rows, c, v) ==
  LET Keep(r) == r[c] # Null /\ r[c] = v IN SelectSeq(rows, Keep)

----------------------------------------------------------------------------
(* Grouping and statistics (lines 98, 108, 155-156)                        *)

\* The category labels in the order groupby sorts its keys.
KeyOrder == <<"A", "B", "X", "Y">>

RECURSIVE SumSeq(_)
SumSeq(s) == IF s = <<>> THEN 0 ELSE Head(s) + SumSeq(Tail(s))

\* The numbers held by the non-null cells of a column, in row order.
Unwrap(cells) == [i \in 1..Len(cells) |-> cells[i][1]]

Values(rows, n) == Unwrap(dropna(Column(rows, n)))

\* df.groupby(cat_col)[num_col].sum(): one entry per distinct non-null key,
\* in sorted key order; null values are skipped, so an all-null group sums
\* to 0.
GroupKeys(rows, c) ==
  LET Present(k) == \E i \in 1..Len(rows) : rows[i][c] = <<k>>
  IN SelectSeq(KeyOrder, Present)

\* SumByKey with every group summing the whole column; C6 tells it from
\* SumByKey.
SumByKeyWholeColumn(rows, c, n, keys) ==
  [i \in 1..Len(keys) |-> [key |-> keys[i], value |-> <<SumSeq(Values(rows, n))>>]]

SumByKey(rows, c, n, keys) ==
  [i \in 1..Len(keys) |->
     [key |-> keys[i],
      value |-> <<SumSeq(Values(FilterRows(rows, c, <<keys[i]>>), n))>>]]

GroupSum(rows, c, n) == SumByKey(rows, c, n, GroupKeys(rows, c))

\* Series.dropna()
dropna_series(series) ==
  LET NotNull(e) == e.value # Null IN SelectSeq(series, NotNull)

Pos(prio, k) == CHOOSE i \in 1..Len(prio) : prio[i] = k

Remove(s, i) == SubSeq(s, 1, i - 1) \o SubSeq(s, i + 1, Len(s))

\* Whether entry a is placed before entry b by a descending sort that puts
\* nulls last and orders equal values by prio.
Precedes(a, b, prio) ==
  \/ a.value # Null /\ b.value = Null
  \/ a.value # Null /\ b.value # Null /\ a.value[1] > b.value[1]
  \/ /\ (a.value = Null) = (b.value = Null)
     /\ a.value = b.value
     /\ Pos(prio, a.key) < Pos(prio, b.key)

\* Series.sort_values(ascending=False).  The sort is not stable: the order
\* of equal sums is any order, here the one prio gives.
\* sort_values leaving the series in key order; C7 tells it from
\* sort_values.
KeepKeyOrder(series, prio) == series

RECURSIVE sort_values(_, _)
MoveFirst(series, prio, i) ==
  <<series[i]>> \o sort_values(Remove(series, i), prio)

sort_values(series, prio) ==
  IF series = <<>> THEN <<>>
  ELSE MoveFirst(series, prio,
                 CHOOSE i \in 1..Len(series) :
                   \A j \in 1..Len(series) :
                     j # i => Precedes(series[i], series[j], prio))

RECURSIVE Insert(_, _)
Insert(x, s) ==
  IF s = <<>> THEN <<x>>
  ELSE IF x <= Head(s) THEN <<x>> \o s ELSE <<Head(s)>> \o Insert(x, Tail(s))

RECURSIVE SortAsc(_)
SortAsc(s) == IF s = <<>> THEN <<>> ELSE Insert(Head(s), SortAsc(Tail(s)))

\* Series.describe() of a numeric column: the count of non-null values,
\* their sum (mean = sum / count) and twice the 50% quantile (linear
\* interpolation: the middle value, or the mean of the two middle values).
Quantile50x2(v, cnt) ==
  IF cnt = 0 THEN 0
  ELSE IF cnt % 2 = 1 THEN 2 * v[(cnt + 1) \div 2]
  ELSE v[cnt \div 2] + v[cnt \div 2 + 1]

DescribeSorted(v) ==
  [count |-> Len(v), sum |-> SumSeq(v), median2 |-> Quantile50x2(v, Len(v))]

describe(rows, n) == DescribeSorted(SortAsc(Values(rows, n)))

\* "increasing" if desc["mean"] > desc["50%"] else "stable"; with no values
\* both are NaN and the comparison is false.
trend(desc) ==
  IF desc.count > 0 /\ 2 * desc.sum > desc.count * desc.median2
  THEN "increasing" ELSE "stable"

----------------------------------------------------------------------------
(* Chart dispatch (lines 93-144)                                           *)

VisTypes ==
  <<"Pie Chart", "Bar Chart", "Histogram", "Line Chart", "Correlation Heatmap">>

Chart(kind, col, series) == [kind |-> kind, col |-> col, series |-> series]

\* No figure object is bound.
NoFig == Chart("none", "", <<>>)

\* plt.subplots(): a fresh figure with empty axes.
NewFigure == Chart("blank", "", <<>>)

\* A figure shown with st.pyplot holds a plotted chart.
IsChart(f) == f.kind \notin {"none", "blank"}

\* Lines 96-103.  groupby(None) raises TypeError; a pie of a series with a
\* negative value raises ValueError after the figure was created.
\* Show with fig left bound to the first chart drawn; C10 tells it from
\* Show.
ShowKeepingFirst(acc, ch) ==
  [acc EXCEPT !.charts = Append(@, ch),
              !.fig = IF IsChart(@) THEN @ ELSE ch]

\* st.pyplot(fig) of a figure holding chart ch.
Show(acc, ch) == [acc EXCEPT !.charts = Append(@, ch), !.fig = ch]

RECURSIVE PieLoop(_, _, _, _)
PiePlot(rows, cat_col, cols, acc, grouping) ==
  IF \E i \in 1..Len(grouping) : grouping[i].value[1] < 0
  THEN [acc EXCEPT !.fig = NewFigure, !.error = "ValueError"]
  ELSE PieLoop(rows, cat_col, Tail(cols),
               Show(acc, Chart("pie", Head(cols), grouping)))

PieLoop(rows, cat_col, cols, acc) ==
  IF cols = <<>> THEN acc
  ELSE IF cat_col = PyNone THEN [acc EXCEPT !.error = "TypeError"]
  ELSE PiePlot(rows, cat_col, cols, acc,
               dropna_series(GroupSum(rows, cat_col, Head(cols))))

\* Lines 106-114.
RECURSIVE BarLoop(_, _, _, _, _)
BarLoop(rows, cat_col, cols, tb, acc) ==
  IF cols = <<>> THEN acc
  ELSE IF cat_col = PyNone THEN [acc EXCEPT !.error = "TypeError"]
  ELSE BarLoop(rows, cat_col, Tail(cols), tb,
               Show(acc, Chart("bar", Head(cols),
                               dropna_series(
                                 sort_values(GroupSum(rows, cat_col, Head(cols)),
                                             tb[Head(cols)])))))

\* Lines 117-122 and 128-134: one chart per selected column.
RECURSIVE PlotLoop(_, _, _)
PlotLoop(kind, cols, acc) ==
  IF cols = <<>> THEN acc
  ELSE PlotLoop(kind, Tail(cols), Show(acc, Chart(kind, Head(cols), <<>>)))

\* Lines 93-144: the charts shown, the figure bound to fig at the end, the
\* warnings shown and the exception raised, if any.  A heatmap of an empty
\* correlation matrix raises ValueError.
\* DispatchFrom with the Line branch not testing dt_col; C3 tells it from
\* DispatchFrom.
DispatchWithoutDtTest(v, tb, acc) ==
  CASE v.vis_type = "Pie Chart" ->
         PieLoop(v.df, v.cat_col, v.num_cols_selected, acc)
    [] v.vis_type = "Bar Chart" ->
         BarLoop(v.df, v.cat_col, v.num_cols_selected, tb, acc)
    [] v.vis_type = "Histogram" ->
         PlotLoop("hist", v.num_cols_selected, acc)
    [] v.vis_type = "Line Chart" ->
         PlotLoop("line", v.num_cols_selected, acc)
    [] v.vis_type = "Correlation Heatmap" ->
         IF v.num_cols_selected = <<>>
         THEN [acc EXCEPT !.error = "ValueError"]
         ELSE Show(acc, Chart("heatmap", "", <<>>))

DispatchFrom(v, tb, acc) ==
  CASE v.vis_type = "Pie Chart" ->
         PieLoop(v.df, v.cat_col, v.num_cols_selected, acc)
    [] v.vis_type = "Bar Chart" ->
         BarLoop(v.df, v.cat_col, v.num_cols_selected, tb, acc)
    [] v.vis_type = "Histogram" ->
         PlotLoop("hist", v.num_cols_selected, acc)
    [] v.vis_type = "Line Chart" ->
         IF v.dt_col # PyNone
         THEN PlotLoop("line", v.num_cols_selected, acc)
         ELSE [acc EXCEPT !.messages =
                            <<"warning: No valid datetime column selected.">>]
    [] v.vis_type = "Correlation Heatmap" ->
         IF v.num_cols_selected = <<>>
         THEN [acc EXCEPT !.error = "ValueError"]
         ELSE Show(acc, Chart("heatmap", "", <<>>))

\* Line 93 binds fig to a fresh figure before any chart is drawn.
Dispatch(v, tb) ==
  DispatchFrom(v, tb, [charts |-> <<>>, fig |-> NewFigure, error |-> "",
                       messages |-> <<>>])

----------------------------------------------------------------------------
(* Auto insight generator (lines 152-164)                                  *)

Insight(kind, col, desc, label) ==
  [kind |-> kind, col |-> col, count |-> desc.count, sum |-> desc.sum,
   median2 |-> desc.median2, trend |-> label]

TrendInsight(col, desc) == Insight("trend", col, desc, trend(desc))

NoDesc == [count |-> 0, sum |-> 0, median2 |-> 0]

\* The sentences shown and the exception raised, if any: the Pie sentence
\* reads num_cols_selected[0], an IndexError on an empty selection.
Insights(v) ==
  CASE v.vis_type \in {"Bar Chart", "Line Chart", "Histogram"} ->
         [insights |->
            [i \in 1..Len(v.num_cols_selected) |->
               TrendInsight(v.num_cols_selected[i],
                            describe(v.df, v.num_cols_selected[i]))],
          error |-> ""]
    [] v.vis_type = "Pie Chart" ->
         IF v.num_cols_selected = <<>>
         THEN [insights |-> <<>>, error |-> "IndexError"]
         ELSE [insights |-> <<Insight("pie", v.num_cols_selected[1], NoDesc, "")>>,
               error |-> ""]
    [] OTHER ->
         [insights |-> <<Insight("heatmap", "", NoDesc, "")>>, error |-> ""]

----------------------------------------------------------------------------
(* One pass of the script                                                  *)

\* The widget values of a session in which no widget has been rendered.
FreshWidgets ==
  [vis_type |-> VisTypes[1], filter_col |-> "None", selected_val |-> Null,
   show_summary |-> FALSE, cat_col |-> PyNone, num_widget |-> "none",
   num_cols_selected |-> <<>>, dt_col |-> PyNone]

\* The multiselect a chart kind renders: Pie and Bar share one, Histogram
\* and Line another, the heatmap renders none.
NumWidget(vis) ==
  CASE vis \in {"Pie Chart", "Bar Chart"} -> "pb"
    [] vis \in {"Histogram", "Line Chart"} -> "hl"
    [] OTHER -> "none"

\* The value the selectbox of line 62 returns over the options uniq.
SelectedVal(w, uniq) ==
  IF uniq = <<>> THEN Null
  ELSE IF w.selected_val \in Range(uniq) THEN w.selected_val
  ELSE uniq[1]

\* Lines 63-87: the filtered table and the chart's column selections.
Selections(table, w, cats, nums, dts, fcol, sval) ==
  [vis_type |-> w.vis_type,
   categorical_cols |-> cats, numeric_cols |-> nums, datetime_cols |-> dts,
   filter_col |-> fcol, selected_val |-> sval,
   df |-> IF fcol = "None" THEN table.rows
          ELSE FilterRows(table.rows, fcol, sval),
   show_summary |-> w.show_summary,
   cat_col |-> IF NumWidget(w.vis_type) # "pb" THEN PyNone
               ELSE IF w.cat_col \in Range(cats) THEN w.cat_col
               ELSE FirstOrNone(cats),
   num_widget |-> NumWidget(w.vis_type),
   num_cols_selected |->
     IF NumWidget(w.vis_type) = "none" THEN nums
     ELSE IF w.num_widget = NumWidget(w.vis_type) THEN w.num_cols_selected
     ELSE FirstOnly(nums),
   dt_col |-> IF w.vis_type # "Line Chart" THEN PyNone
              ELSE IF w.dt_col \in Range(dts) THEN w.dt_col
              ELSE FirstOrNone(dts)]

\* Lines 60-62.
Filtered(table, w, cats, nums, dts, fcol) ==
  Selections(table, w, cats, nums, dts, fcol,
             IF fcol = "None" THEN Null
             ELSE SelectedVal(w, unique_vals(table.rows, fcol)))

\* Lines 57-59: the filter selectbox is rendered when there is a
\* categorical column.
Classified(table, w, cats, nums, dts) ==
  Filtered(table, w, cats, nums, dts,
           IF cats # <<>> /\ w.filter_col \in Range(cats)
           THEN w.filter_col ELSE "None")

\* Lines 32-87 for a loaded table: the values the script's variables take,
\* given the values w held by the widgets.  A widget that is rendered for
\* the first time, or whose held value is not among its options, returns
\* its default.
Controls(table, w) ==
  Classified(table, w, categorical_cols(table.columns),
             numeric_cols(table.columns), datetime_cols(table.columns))

\* The widget values the session holds after a pass with controls v.
Held(v) ==
  [vis_type |-> v.vis_type, filter_col |-> v.filter_col,
   selected_val |-> v.selected_val, show_summary |-> v.show_summary,
   cat_col |-> v.cat_col, num_widget |-> v.num_widget,
   num_cols_selected |-> IF v.num_widget = "none" THEN <<>> ELSE v.num_cols_selected,
   dt_col |-> v.dt_col]

EmptyPage ==
  [status |-> "stopped", error |-> "", loaded |-> FALSE, pressed |-> FALSE,
   messages |-> <<>>, ran |-> {},
   categorical_cols |-> <<>>, numeric_cols |-> <<>>, datetime_cols |-> <<>>,
   df |-> <<>>, num_cols_selected |-> <<>>,
   charts |-> <<>>, fig |-> NoFig, download |-> NoFig, insights |-> <<>>]

\* Lines 18-30 when no table is produced: the message, then st.stop().
StopPage(msg) == [EmptyPage EXCEPT !.messages = <<msg>>]

\* Lines 91-144: what the dispatch d showed is on the page.
Shown(page, d) ==
  [page EXCEPT !.pressed = TRUE,
               !.ran = @ \cup {"dispatch"},
               !.messages = @ \o d.messages,
               !.charts = d.charts,
               !.fig = d.fig]

\* An uncaught exception ends the pass.
Raised(page, error) == [page EXCEPT !.status = "exception", !.error = error]

\* Lines 147-149 export the figure bound to fig; then the insights ins.
Exported(page, d, ins) ==
  [page EXCEPT !.download = d.fig,
               !.ran = @ \cup {"export", "insight"},
               !.insights = ins.insights]

\* Line 166.
Completed(page) ==
  [page EXCEPT
     !.status = "done",
     !.messages =
       @ \o <<"success: Visualization and insights generated successfully!">>]

AfterInsight(page, d, ins) ==
  IF ins.error # ""
  THEN Raised(Exported(page, d, ins), ins.error)
  ELSE Completed(Exported(page, d, ins))

AfterDispatch(v, page, d) ==
  IF d.error # ""
  THEN Raised(Shown(page, d), d.error)
  ELSE AfterInsight(Shown(page, d), d, Insights(v))

\* Lines 90-166: the Generate block, entered when the button was pressed.
Generate(v, page, tb) == AfterDispatch(v, page, Dispatch(v, tb))

\* Lines 24-87: the page of a loaded table above the Generate block.
Loaded(v) ==
  [EmptyPage EXCEPT
     !.status = "done",
     !.loaded = TRUE,
     !.messages =
       <<"success: Loaded file">>
       \o (IF v.filter_col # "None" THEN <<"info: Filtered by">> ELSE <<>>)
       \o (IF v.vis_type = "Line Chart" /\ v.datetime_cols = <<>>
           THEN <<"warning: No datetime columns detected.">> ELSE <<>>),
     !.ran = {"classify", "filter", "select"}
             \cup (IF v.show_summary THEN {"summary"} ELSE {}),
     !.categorical_cols = v.categorical_cols,
     !.numeric_cols = v.numeric_cols,
     !.datetime_cols = v.datetime_cols,
     !.df = v.df,
     !.num_cols_selected = v.num_cols_selected]

\* Lines 32-166 for a loaded table.
Body(v, pressed, tb) ==
  IF pressed THEN Generate(v, Loaded(v), tb) ELSE Loaded(v)

\* The widget values held after the pass and the page shown.
Finish(v, pressed, tb) == [w |-> Held(v), page |-> Body(v, pressed, tb)]

Stopped(msg) == [w |-> FreshWidgets, page |-> StopPage(msg)]

\* Parsed with the except branch falling through instead of stopping; C1
\* tells it from Parsed.
ParsedWithoutStop(ld, w, pressed, tb) ==
  Finish(Controls(ld.df, w), pressed, tb)

\* Lines 19-27.
Parsed(ld, w, pressed, tb) ==
  IF ld.raised THEN Stopped("error: Error reading file")
  ELSE Finish(Controls(ld.df, w), pressed, tb)

\* The whole script.
Script(file, w, pressed, tb) ==
  IF file.name = "" THEN Stopped("info: Please upload a file to begin.")
  ELSE Parsed(Load(file), w, pressed, tb)

----------------------------------------------------------------------------
(* The session                                                             *)

VARIABLES uploaded_file, vis_type, filter_col, selected_val, show_summary,
          cat_col, num_widget, num_cols_selected, dt_col, page

vars == <<uploaded_file, vis_type, filter_col, selected_val, show_summary,
          cat_col, num_widget, num_cols_selected, dt_col, page>>

\* The values the widgets hold.
Widgets ==
  [vis_type |-> vis_type, filter_col |-> filter_col,
   selected_val |-> selected_val, show_summary |-> show_summary,
   cat_col |-> cat_col, num_widget |-> num_widget,
   num_cols_selected |-> num_cols_selected, dt_col |-> dt_col]

Perms(S) ==
  {p \in [1..Cardinality(S) -> S] :
     \A i, j \in 1..Cardinality(S) : p[i] = p[j] => i = j}

\* The orders the unstable sort of line 108 may give equal sums, per
\* selected column.
SortOrders(v) ==
  IF v.cat_col = PyNone THEN {<<>>}
  ELSE [Range(v.num_cols_selected) ->
          Perms({c[1] : c \in Range(unique_vals(v.df, v.cat_col))})]

\* A single choice where no sort runs.
TieBreaks(file, w, pressed) ==
  IF pressed /\ file.ok /\ w.vis_type = "Bar Chart"
  THEN SortOrders(Controls(file.table, w))
  ELSE {<<>>}

Assign(file, r) ==
  /\ uploaded_file' = file
  /\ vis_type' = r.w.vis_type
  /\ filter_col' = r.w.filter_col
  /\ selected_val' = r.w.selected_val
  /\ show_summary' = r.w.show_summary
  /\ cat_col' = r.w.cat_col
  /\ num_widget' = r.w.num_widget
  /\ num_cols_selected' = r.w.num_cols_selected
  /\ dt_col' = r.w.dt_col
  /\ page' = r.page

\* One user interaction: the file and widget values it leaves, then the
\* pass it triggers.
Rerun(file, w, pressed) ==
  \E tb \in TieBreaks(file, w, pressed) : Assign(file, Script(file, w, pressed, tb))

Init ==
  /\ uploaded_file = NoFile
  /\ vis_type = FreshWidgets.vis_type
  /\ filter_col = FreshWidgets.filter_col
  /\ selected_val = FreshWidgets.selected_val
  /\ show_summary = FreshWidgets.show_summary
  /\ cat_col = FreshWidgets.cat_col
  /\ num_widget = FreshWidgets.num_widget
  /\ num_cols_selected = FreshWidgets.num_cols_selected
  /\ dt_col = FreshWidgets.dt_col
  /\ page = StopPage("info: Please upload a file to begin.")

\* Line 16: the user uploads a file.
Upload ==
  /\ uploaded_file = NoFile
  /\ \E f \in Files : Rerun(f, Widgets, FALSE)

\* Line 16: the user removes the uploaded file.
RemoveFile ==
  /\ uploaded_file # NoFile
  /\ Rerun(NoFile, Widgets, FALSE)

\* Line 51.
SelectVisType ==
  /\ page.loaded
  /\ \E i \in 1..Len(VisTypes) :
       /\ VisTypes[i] # vis_type
       /\ Rerun(uploaded_file, [Widgets EXCEPT !.vis_type = VisTypes[i]], FALSE)

\* Line 59: the value selectbox of line 62 is labelled by the column, so a
\* new column brings a new one.
SelectFilterCol ==
  /\ page.loaded
  /\ page.categorical_cols # <<>>
  /\ \E c \in {"None"} \cup Range(page.categorical_cols) :
       /\ c # filter_col
       /\ Rerun(uploaded_file,
                [Widgets EXCEPT !.filter_col = c, !.selected_val = Null], FALSE)

\* Line 62.
SelectValue ==
  /\ page.loaded
  /\ filter_col # "None"
  /\ \E x \in Range(unique_vals(uploaded_file.table.rows, filter_col)) :
       /\ x # selected_val
       /\ Rerun(uploaded_file, [Widgets EXCEPT !.selected_val = x], FALSE)

\* Line 67.
ToggleSummary ==
  /\ page.loaded
  /\ Rerun(uploaded_file, [Widgets EXCEPT !.show_summary = ~show_summary], FALSE)

\* Line 75.
SelectCatCol ==
  /\ page.loaded
  /\ num_widget = "pb"
  /\ \E c \in Range(page.categorical_cols) :
       /\ c # cat_col
       /\ Rerun(uploaded_file, [Widgets EXCEPT !.cat_col = c], FALSE)

\* Lines 76, 78, 85: the user adds a column to the multiselect.
AddNumCol ==
  /\ page.loaded
  /\ num_widget # "none"
  /\ \E c \in Range(page.numeric_cols) \ Range(num_cols_selected) :
       Rerun(uploaded_file,
             [Widgets EXCEPT !.num_cols_selected = Append(@, c)], FALSE)

\* Lines 76, 78, 85: the user removes a column from the multiselect.
RemoveNumCol ==
  /\ page.loaded
  /\ num_widget # "none"
  /\ \E i \in 1..Len(num_cols_selected) :
       Rerun(uploaded_file,
             [Widgets EXCEPT !.num_cols_selected = Remove(@, i)], FALSE)

\* Line 81.
SelectDtCol ==
  /\ page.loaded
  /\ vis_type = "Line Chart"
  /\ \E c \in Range(page.datetime_cols) :
       /\ c # dt_col
       /\ Rerun(uploaded_file, [Widgets EXCEPT !.dt_col = c], FALSE)

\* Line 90.
ClickGenerate ==
  /\ page.loaded
  /\ Rerun(uploaded_file, Widgets, TRUE)

Next ==
  \/ Upload
  \/ RemoveFile
  \/ SelectVisType
  \/ SelectFilterCol
  \/ SelectValue
  \/ ToggleSummary
  \/ SelectCatCol
  \/ AddNumCol
  \/ RemoveNumCol
  \/ SelectDtCol
  \/ ClickGenerate

Spec == Init /\ [][Next]_vars

----------------------------------------------------------------------------
(* Properties                                                              *)

Last(s) == s[Len(s)]

Warned(msg) == msg \in Range(page.messages)

\* The number of rows whose cell in column c is v.
CountOf(rows, c, v) == Cardinality({i \in 1..Len(rows) : rows[i][c] = v})

\* The sum of column n over the rows whose cell in column c is in cells,
\* null values of n contributing nothing.
RECURSIVE SumWhere(_, _, _, _)
SumWhere(rows, c, n, cells) ==
  IF rows = <<>> THEN 0
  ELSE (IF Head(rows)[c] \in cells /\ Head(rows)[n] # Null
        THEN Head(rows)[n][1] ELSE 0)
       + SumWhere(Tail(rows), c, n, cells)

NonNullCells(rows, c) == {rows[i][c] : i \in 1..Len(rows)} \ {Null}

\* C1: when no file is uploaded, or the parser raises on the uploaded file,
\* the pass shows one message and stops: no table is produced and no stage
\* from column detection to the insights runs.
C1_LoadFailureHalts ==
  (uploaded_file.name = "" \/ Load(uploaded_file).raised) =>
    /\ page.status = "stopped"
    /\ ~page.loaded
    /\ page.df = <<>>
    /\ page.ran = {}
    /\ page.charts = <<>>
    /\ page.download = NoFig
    /\ page.insights = <<>>
    /\ page.messages =
         <<IF uploaded_file.name = ""
           THEN "info: Please upload a file to begin."
           ELSE "error: Error reading file">>

C1_Witness ==
  /\ uploaded_file.name = "bad.xlsx"
  /\ page.messages = <<"error: Error reading file">>

\* C2: for every categorical column c of the uploaded table and every
\* non-null value v occurring in c, filtering by (c, v) keeps exactly the
\* rows with c = v, as many as v occurs in c; the table the pass works on is
\* that filter's result for the chosen (c, v), and the uploaded table when
\* "None" is chosen.
C2_FilterKeepsMatchingRows ==
  page.loaded =>
    LET rows == uploaded_file.table.rows
    IN /\ \A c \in Range(page.categorical_cols) :
            \A v \in NonNullCells(rows, c) :
              LET out == FilterRows(rows, c, v)
              IN /\ \A i \in 1..Len(out) : out[i][c] = v
                 /\ Len(out) = CountOf(rows, c, v)
                 /\ Len(out) >= 1
       /\ filter_col # "None" =>
            /\ filter_col \in Range(page.categorical_cols)
            /\ selected_val \in NonNullCells(rows, filter_col)
            /\ \A i \in 1..Len(page.df) : page.df[i][filter_col] = selected_val
            /\ Len(page.df) = CountOf(rows, filter_col, selected_val)
       /\ filter_col = "None" => page.df = rows

C2_Witness ==
  /\ page.loaded
  /\ filter_col = "region"
  /\ selected_val = <<"B">>
  /\ Len(page.df) = 1
  /\ \E i \in 1..Len(uploaded_file.table.rows) :
       uploaded_file.table.rows[i]["region"] = Null

\* C3: on a table without a datetime column, Line Chart shows a warning,
\* and Generate shows no chart whatever numeric columns are selected, warns
\* again and completes the pass.
C3_LineWithoutDatetime ==
  (page.loaded /\ vis_type = "Line Chart" /\ page.datetime_cols = <<>>) =>
    /\ Warned("warning: No datetime columns detected.")
    /\ page.status = "done"
    /\ page.pressed =>
         /\ page.charts = <<>>
         /\ Warned("warning: No valid datetime column selected.")

C3_Witness ==
  /\ page.loaded
  /\ vis_type = "Line Chart"
  /\ page.datetime_cols = <<>>
  /\ page.pressed
  /\ Len(num_cols_selected) = 1
  /\ page.charts = <<>>

\* C4: the PNG download is offered only in a pass that showed at least one
\* chart.
C4_DownloadOnlyWithChart ==
  page.download # NoFig => page.charts # <<>>

\* C5: pressing Generate never ends in an unhandled error: the pass ends
\* with charts shown, or with a warning and no chart, and Generate can be
\* pressed again.
C5_NoUnhandledError ==
  page.pressed =>
    /\ page.status = "done"
    /\ page.error = ""
    /\ \/ page.charts # <<>>
       \/ /\ page.charts = <<>>
          /\ \E m \in Range(page.messages) :
               m \in {"warning: No datetime columns detected.",
                      "warning: No valid datetime column selected."}
    /\ page.loaded

\* Whether g is the grouping of column n by column c over rows: one entry
\* per distinct non-null value of c, holding the sum of n over its rows.
Grouped(g, rows, c, n) ==
  /\ {<<g[i].key>> : i \in 1..Len(g)} = NonNullCells(rows, c)
  /\ Len(g) = Cardinality(NonNullCells(rows, c))
  /\ \A i \in 1..Len(g) : g[i].value = <<SumWhere(rows, c, n, {<<g[i].key>>})>>
  /\ SumSeq([i \in 1..Len(g) |-> g[i].value[1]])
       = SumWhere(rows, c, n, NonNullCells(rows, c))

\* C6: for every categorical column c and numeric column n of the table
\* the pass works on, the grouped series has exactly one entry per distinct
\* non-null value of c, equal to the sum of n over the rows with that value,
\* so its total is the sum of n over the rows with non-null c; every Pie and
\* Bar chart shown holds that series for its column.
C6_GroupedSums ==
  page.loaded =>
    /\ \A c \in Range(page.categorical_cols) :
         \A n \in Range(page.numeric_cols) :
           Grouped(dropna_series(GroupSum(page.df, c, n)), page.df, c, n)
    /\ \A i \in 1..Len(page.charts) :
         page.charts[i].kind \in {"pie", "bar"} =>
           Grouped(page.charts[i].series, page.df, cat_col, page.charts[i].col)

C6_Witness ==
  /\ page.pressed
  /\ vis_type = "Pie Chart"
  /\ Len(page.charts) = 1
  /\ page.charts[1].series = <<[key |-> "A", value |-> <<4>>]>>
  /\ \E i \in 1..Len(page.df) :
       page.df[i][cat_col] = Null /\ page.df[i][page.charts[1].col] = <<1>>

\* C7: the series of every Bar chart is in non-increasing order of its
\* sums; for region = A,A,B,B and sales = 10,20,30,40 it is B:70, A:30.
C7_BarsDescending ==
  /\ \A i \in 1..Len(page.charts) :
       page.charts[i].kind = "bar" =>
         \A j \in 1..(Len(page.charts[i].series) - 1) :
           page.charts[i].series[j].value[1]
             >= page.charts[i].series[j + 1].value[1]
  /\ ( /\ uploaded_file.name = "scenario.csv"
       /\ filter_col = "None"
       /\ vis_type = "Bar Chart"
       /\ num_cols_selected = <<"sales">>
       /\ page.pressed )
     => page.charts =
          <<Chart("bar", "sales",
                  <<[key |-> "B", value |-> <<70>>],
                    [key |-> "A", value |-> <<30>>]>>)>>

C7_Witness ==
  /\ uploaded_file.name = "scenario.csv"
  /\ filter_col = "None"
  /\ page.pressed
  /\ Len(page.charts) = 1
  /\ page.charts[1].kind = "bar"
  /\ page.charts[1].series[1].key = "B"

\* Whether the lists cats, nums, dts classify the columns by their types.
ClassifiedByType(columns, cats, nums, dts) ==
  /\ Range(cats) \cap Range(nums) = {}
  /\ Range(cats) \cap Range(dts) = {}
  /\ Range(nums) \cap Range(dts) = {}
  /\ \A i \in 1..Len(columns) :
       /\ columns[i].name \in Range(cats)
            <=> columns[i].dtype \in {"object", "category"}
       /\ columns[i].name \in Range(nums)
            <=> columns[i].dtype \in {"int64", "float64"}
       /\ columns[i].name \in Range(dts)
            <=> columns[i].dtype = "datetime64[ns]"

\* C8: the three detected column lists are pairwise disjoint; a column is
\* categorical iff its type is object or category, numeric iff it is a
\* number type, datetime iff it is a timestamp type, and of no list
\* otherwise; the lists on the page are those of the uploaded table's types.
C8_ClassificationExclusive ==
  /\ \A t \in DTypes :
       ClassifiedByType(<<Col("x", t)>>,
                        categorical_cols(<<Col("x", t)>>),
                        numeric_cols(<<Col("x", t)>>),
                        datetime_cols(<<Col("x", t)>>))
  /\ page.loaded =>
       ClassifiedByType(uploaded_file.table.columns, page.categorical_cols,
                        page.numeric_cols, page.datetime_cols)

C8_Witness ==
  /\ page.loaded
  /\ uploaded_file.name = "flags.csv"
  /\ page.categorical_cols = <<>>
  /\ page.numeric_cols = <<"sales">>
  /\ page.datetime_cols = <<>>

\* The k-th smallest of the numbers vals.
KthSmallest(vals, k) ==
  CHOOSE x \in Range(vals) :
    /\ Cardinality({j \in 1..Len(vals) : vals[j] < x}) < k
    /\ k <= Cardinality({j \in 1..Len(vals) : vals[j] <= x})

\* Whether the mean of the numbers vals is above their median.
MeanAboveMedian(vals) ==
  /\ vals # <<>>
  /\ 2 * SumWhere([i \in 1..Len(vals) |-> [c |-> <<0>>, n |-> <<vals[i]>>]],
                  "c", "n", {<<0>>})
       > Len(vals) * (KthSmallest(vals, (Len(vals) + 1) \div 2)
                      + KthSmallest(vals, (Len(vals) + 2) \div 2))

\* Bar, Line and Histogram: one sentence per selected numeric column, over
\* its non-null values, "increasing" iff mean > median, else "stable".
TrendSentences ==
  /\ Len(page.insights) = Len(num_cols_selected)
  /\ \A i \in 1..Len(page.insights) :
       /\ page.insights[i].kind = "trend"
       /\ page.insights[i].col = num_cols_selected[i]
       /\ page.insights[i].trend =
            IF MeanAboveMedian(Values(page.df, num_cols_selected[i]))
            THEN "increasing" ELSE "stable"

\* C9: when the insight generator runs, Bar, Line and Histogram get one
\* trend sentence per selected numeric column, and Pie and Heatmap get a
\* single static sentence without a trend label.
C9_InsightSentences ==
  "insight" \in page.ran =>
    /\ vis_type \in {"Bar Chart", "Line Chart", "Histogram"} => TrendSentences
    /\ vis_type \in {"Pie Chart", "Correlation Heatmap"} =>
         /\ Len(page.insights) = 1
         /\ page.insights[1].kind \in {"pie", "heatmap"}
         /\ page.insights[1].trend = ""

\* C10: after a Generate pass that showed one chart per selected numeric
\* column, in selection order, the current figure and the exported one are
\* the chart of the last selected column; after a heatmap pass they are the
\* heatmap.
C10_LastChartExported ==
  ( /\ page.pressed
    /\ page.charts # <<>>
    /\ \/ vis_type = "Correlation Heatmap"
       \/ Len(page.charts) = Len(page.num_cols_selected) )
  => /\ page.fig = Last(page.charts)
     /\ page.download = Last(page.charts)
     /\ vis_type # "Correlation Heatmap" =>
          /\ \A i \in 1..Len(page.charts) :
               page.charts[i].col = page.num_cols_selected[i]
          /\ page.download.col = Last(page.num_cols_selected)
     /\ vis_type = "Correlation Heatmap" =>
          page.charts = <<Chart("heatmap", "", <<>>)>>

C10_Witness ==
  /\ page.pressed
  /\ vis_type = "Histogram"
  /\ page.num_cols_selected = <<"qty", "sales">>
  /\ Len(page.charts) = 2
  /\ page.download = Chart("hist", "sales", <<>>)

====
